---- MODULE Spec2Model ----
(***************************************************************************)
(* Model of cirello.io/otp (src/main.go): the otps table, the add, rm and  *)
(* init commands, the load listing used by get and http, and the          *)
(* label-bound RSA-OAEP cipher.                                            *)
(*                                                                         *)
(* A Go string is a sequence of one-character strings.  An error is a      *)
(* string, nil being "nil".  The otps table is a bag of rows: the          *)
(* rowid column `id` is never read by the program and is what tells two    *)
(* otherwise equal rows apart, which the bag's multiplicity does.          *)
(***************************************************************************)
EXTENDS Bags, FiniteSets, Integers, Sequences, TLC

VARIABLES
    dbTable,    \* the table otps exists in the database file
    dbIndex,    \* the unique index otps_account_issuer exists
    otps,       \* bag of rows [account, issuer, password]
    last,       \* the last init/add/rm command and what it returned
    now,        \* the wall clock in Unix seconds, as time.Now().Unix() reads it
    pc,         \* position of load: "idle", "next" (at rows.Next), "print"
    priv,       \* load: the private key loaded by privkeyfile
    rows,       \* load: the result of the SELECT, in order
    cursor,     \* load: index of the next row rows.Next yields
    out,        \* load: the lines written to the tabwriter
    loc,        \* load: the loop body's locals for the current row
    loadErr,    \* load: the error load returned
    enc,        \* cipher: last call of privkey.encrypted and its result
    dec         \* cipher: last call of privkey.decrypted and its result

vars == <<dbTable, dbIndex, otps, last, now, pc, priv, rows, cursor, out, loc,
          loadErr, enc, dec>>

vaultVars  == <<dbTable, dbIndex, otps, last>>
loadVars   == <<pc, priv, rows, cursor, out, loc, loadErr>>
cipherVars == <<enc, dec>>

----------------------------------------------------------------------------
(* Bounds *)

\* Largest plaintext length RSA-OAEP accepts (k - 2*hLen - 2 for the key).
OAEPMaxMsg == 3
\* Last clock reading of the model.
MaxNow == 31
\* Number of add commands that built the store the listing specifications start from.
MaxInitAdds == 3

\* Length of a TOTP time step in seconds.
StepSeconds == 30

----------------------------------------------------------------------------
(* Strings *)

nil == "nil"

Range(s) == {s[i] : i \in 1..Len(s)}

Digits == <<"0", "1", "2", "3", "4", "5", "6", "7", "8", "9">>
Upper == <<"A", "B", "C", "D", "E", "F", "G", "H", "I", "J", "K", "L", "M",
           "N", "O", "P", "Q", "R", "S", "T", "U", "V", "W", "X", "Y", "Z">>
Lower == <<"a", "b", "c", "d", "e", "f", "g", "h", "i", "j", "k", "l", "m",
           "n", "o", "p", "q", "r", "s", "t", "u", "v", "w", "x", "y", "z">>

\* unicode.IsSpace on the ASCII range.
Whitespace == {" ", "\t", "\n", "\r", "\f"}

IndexOf(s, c) == CHOOSE i \in 1..Len(s) : s[i] = c

\* The byte value of a character (ASCII).
Ord(c) ==
    CASE c = "\t" -> 9
      [] c = "\n" -> 10
      [] c = "\f" -> 12
      [] c = "\r" -> 13
      [] c = " "  -> 32
      [] c \in Range(Digits) -> 47 + IndexOf(Digits, c)
      [] c \in Range(Upper)  -> 64 + IndexOf(Upper, c)
      [] c \in Range(Lower)  -> 96 + IndexOf(Lower, c)
      [] OTHER -> 127

\* Byte-wise comparison of two strings (SQLite's BINARY collation): a < b.
RECURSIVE StrLess(_, _)
StrLess(a, b) ==
    IF b = <<>> THEN FALSE
    ELSE IF a = <<>> THEN TRUE
    ELSE IF Ord(Head(a)) # Ord(Head(b)) THEN Ord(Head(a)) < Ord(Head(b))
    ELSE StrLess(Tail(a), Tail(b))

\* strings.ReplaceAll(s, old, "") for a one-character old.
RECURSIVE ReplaceAll(_, _)
ReplaceAll(s, old) ==
    IF s = <<>> THEN <<>>
    ELSE IF Head(s) = old THEN ReplaceAll(Tail(s), old)
    ELSE <<Head(s)>> \o ReplaceAll(Tail(s), old)

ToUpperRune(c) == IF c \in Range(Lower) THEN Upper[IndexOf(Lower, c)] ELSE c

\* strings.ToUpper
ToUpper(s) == [i \in 1..Len(s) |-> ToUpperRune(s[i])]

\* strings.TrimSpace
RECURSIVE TrimLeft(_)
TrimLeft(s) ==
    IF s # <<>> /\ Head(s) \in Whitespace THEN TrimLeft(Tail(s)) ELSE s
RECURSIVE TrimRight(_)
TrimRight(s) ==
    IF s # <<>> /\ s[Len(s)] \in Whitespace
    THEN TrimRight(SubSeq(s, 1, Len(s) - 1)) ELSE s
TrimSpace(s) == TrimRight(TrimLeft(s))

----------------------------------------------------------------------------
(* Key files and the cipher *)

NoKey == "nokey"
KeyFiles == {"id_rsa", "id_other", "missing"}

\* privkeyfile: the key a file holds, or the error of reading it.
privkeyfile(fn) ==
    IF fn = "missing"
    THEN [err |-> "cannot read key file", key |-> NoKey]
    ELSE [err |-> nil, key |-> fn]

\* The public half of a key pair; a ciphertext names the public key it was made with.
PublicKey(k) == k

\* sha256 as an injective function of its input.
sha256(b) == <<"sha256">> \o b

NoBytes == [pub |-> NoKey, lHash |-> <<>>, seed |-> 0, msg |-> <<>>]

ErrMessageTooLong == "crypto/rsa: message too long for RSA key size"
ErrDecryption == "crypto/rsa: decryption error"

\* rsa.EncryptOAEP(sha256.New(), rand.Reader, &p.PublicKey, in, label); seed is
\* what rand.Reader yields.  The ciphertext is the RSA image of the encoded
\* message lHash || PS || 01 || in masked with the seed.
encrypted(p, in, label, seed) ==
    IF Len(in) > OAEPMaxMsg
    THEN [err |-> ErrMessageTooLong, out |-> NoBytes]
    ELSE [err |-> nil,
          out |-> [pub |-> PublicKey(p), lHash |-> sha256(label),
                   seed |-> seed, msg |-> in]]

\* A variant that compares no label hash.
decrypted_nolabel(p, in, label) ==
    IF in.pub # PublicKey(p)
    THEN [err |-> ErrDecryption, out |-> <<>>]
    ELSE [err |-> nil, out |-> in.msg]

\* A variant that returns the message without its first byte.
decrypted_short(p, in, label) ==
    IF in.pub # PublicKey(p) \/ in.lHash # sha256(label)
    THEN [err |-> ErrDecryption, out |-> <<>>]
    ELSE [err |-> nil, out |-> IF in.msg = <<>> THEN <<>> ELSE Tail(in.msg)]

\* rsa.DecryptOAEP(sha256.New(), rand.Reader, p.PrivateKey, in, label): one
\* error for a wrong key, a wrong label hash and a malformed message.
decrypted(p, in, label) ==
    IF in.pub # PublicKey(p) \/ in.lHash # sha256(label)
    THEN [err |-> ErrDecryption, out |-> <<>>]
    ELSE [err |-> nil, out |-> in.msg]

\* A variant that separates the two operands.
cryptlabel_sep(account, issuer) == account \o <<" ">> \o issuer

\* fmt.Sprint(account, issuer): no space is added between string operands.
cryptlabel(account, issuer) == account \o issuer

----------------------------------------------------------------------------
(* The otps table *)

Row(account, issuer, password) ==
    [account |-> account, issuer |-> issuer, password |-> password]

\* The rows of the table with the given key.
RowsOf(t, account, issuer) ==
    {r \in BagToSet(t) : r.account = account /\ r.issuer = issuer}

\* Number of rows of the table with the given key.
CountOf(t, account, issuer) ==
    LET S == RowsOf(t, account, issuer)
        RECURSIVE Sum(_)
        Sum(X) == IF X = {} THEN 0
                  ELSE LET x == CHOOSE y \in X : TRUE
                       IN CopiesIn(x, t) + Sum(X \ {x})
    IN Sum(S)

\* The table without the rows of the given key.
Without(t, account, issuer) ==
    LET keep == {r \in BagToSet(t) : ~(r.account = account /\ r.issuer = issuer)}
    IN [r \in keep |-> t[r]]

\* A variant that inserts without resolving the conflict.
ReplaceInto_append(t, unique, issuer, account, password) ==
    t (+) SetToBag({Row(account, issuer, password)})

\* REPLACE INTO otps (issuer, account, password): with the unique index, the
\* rows in conflict are deleted before the insert.
ReplaceInto(t, unique, issuer, account, password) ==
    IF unique
    THEN Without(t, account, issuer) (+) SetToBag({Row(account, issuer, password)})
    ELSE t (+) SetToBag({Row(account, issuer, password)})

\* A variant that matches on the issuer alone.
DeleteFrom_issuer(t, issuer, account) ==
    LET keep == {r \in BagToSet(t) : r.issuer # issuer}
    IN [r \in keep |-> t[r]]

\* DELETE FROM otps WHERE issuer = ? AND account = ?
DeleteFrom(t, issuer, account) == Without(t, account, issuer)

RowLE(x, y) ==
    \/ StrLess(x.account, y.account)
    \/ x.account = y.account /\ ~StrLess(y.issuer, x.issuer)

\* SELECT account, issuer, password FROM otps ORDER BY account ASC, issuer ASC
RECURSIVE SelectOrdered(_)
SelectOrdered(t) ==
    IF BagToSet(t) = {} THEN <<>>
    ELSE LET r == CHOOSE x \in BagToSet(t) : \A y \in BagToSet(t) : RowLE(x, y)
         IN <<r>> \o SelectOrdered(t (-) SetToBag({r}))

----------------------------------------------------------------------------
(* Inputs and placeholders *)

NoToken == [key |-> <<>>, counter |-> -1]
NoLocals == [account |-> <<>>, issuer |-> <<>>, decrypted |-> <<>>,
             key |-> <<>>, keyed |-> FALSE, token |-> NoToken,
             tcode |-> -1, texp |-> -1]
NoCall == [called |-> FALSE, key |-> NoKey, secret |-> <<>>, account |-> <<>>,
           issuer |-> <<>>, label |-> <<>>, err |-> nil, out |-> NoBytes,
           plain |-> <<>>]


SecretSpaced == <<"j", " ", "b">>
SecretTabbed == <<"J", "\t", "B">>
SecretLong   == <<"J", "B", "S", "W">>

Secrets  == {<<>>, SecretSpaced, SecretTabbed, SecretLong}
Accounts == {<<>>, <<"a">>, <<"a", "b">>}
Issuers  == {<<>>, <<"c">>, <<"b", "c">>}
Seeds    == {1, 2}

----------------------------------------------------------------------------
(* The commands init, add and rm *)

ErrNoTable == "no such table: otps"
ErrIndexExists == "index otps_account_issuer already exists"
ErrSecretMissing == "secret key is missing"
ErrIssuerMissing == "issuer is missing"
ErrAccountMissing == "account name is missing"

\* A command as it ran: its arguments, the error it returned, the ciphertext it
\* computed, and (a history value, not read by the program) whether the table
\* held a row of its pair when it started.
Outcome(op, keyfile, secretkey, issuer, account, err, enckey, hit) ==
    [op |-> op, keyfile |-> keyfile, secretkey |-> secretkey, issuer |-> issuer,
     account |-> account, err |-> err, enckey |-> enckey, hit |-> hit]

\* init: CREATE TABLE IF NOT EXISTS, then CREATE UNIQUE INDEX, which fails when
\* the index exists.  The table is empty when the index is created: only this
\* command creates either.
InitDb ==
    /\ dbTable' = TRUE
    /\ dbIndex' = TRUE
    /\ last' = Outcome("init", "", <<>>, <<>>, <<>>,
                       IF dbIndex THEN ErrIndexExists ELSE nil, NoBytes, FALSE)
    /\ UNCHANGED otps
    /\ UNCHANGED <<now, loadVars, cipherVars>>

\* A variant that does not check the account name.
AddResult_noaccount(t, tbl, idx, keyfile, secretkey, issuer, account, seed) ==
    LET k == privkeyfile(keyfile)
        e == encrypted(k.key, secretkey, cryptlabel(account, issuer), seed)
        fails(err) == [err |-> err, enckey |-> NoBytes, otps |-> t]
    IN  IF k.err # nil THEN fails(k.err)
        ELSE IF secretkey = <<>> THEN fails(ErrSecretMissing)
        ELSE IF issuer = <<>> THEN fails(ErrIssuerMissing)
        ELSE IF e.err # nil THEN fails(e.err)
        ELSE IF ~tbl THEN [err |-> ErrNoTable, enckey |-> e.out, otps |-> t]
        ELSE [err |-> nil, enckey |-> e.out,
              otps |-> ReplaceInto(t, idx, issuer, account, e.out)]

\* What add returns and the table it leaves, from the state of the database.
AddResult(t, tbl, idx, keyfile, secretkey, issuer, account, seed) ==
    LET k == privkeyfile(keyfile)
        e == encrypted(k.key, secretkey, cryptlabel(account, issuer), seed)
        fails(err) == [err |-> err, enckey |-> NoBytes, otps |-> t]
    IN  IF k.err # nil THEN fails(k.err)
        ELSE IF secretkey = <<>> THEN fails(ErrSecretMissing)
        ELSE IF issuer = <<>> THEN fails(ErrIssuerMissing)
        ELSE IF account = <<>> THEN fails(ErrAccountMissing)
        ELSE IF e.err # nil THEN fails(e.err)
        ELSE IF ~tbl THEN [err |-> ErrNoTable, enckey |-> e.out, otps |-> t]
        ELSE [err |-> nil, enckey |-> e.out,
              otps |-> ReplaceInto(t, idx, issuer, account, e.out)]

\* add secret issuer account-name
Add(keyfile, secretkey, issuer, account, seed) ==
    LET r == AddResult(otps, dbTable, dbIndex, keyfile, secretkey, issuer,
                       account, seed)
    IN  /\ otps' = r.otps
        /\ last' = Outcome("add", keyfile, secretkey, issuer, account, r.err,
                           r.enckey, RowsOf(otps, account, issuer) # {})
        /\ UNCHANGED <<dbTable, dbIndex>>
        /\ UNCHANGED <<now, loadVars, cipherVars>>

\* rm issuer account-name
Rm(issuer, account) ==
    LET err == IF issuer = <<>> THEN ErrIssuerMissing
               ELSE IF account = <<>> THEN ErrAccountMissing
               ELSE IF ~dbTable THEN ErrNoTable
               ELSE nil
    IN  /\ otps' = IF err = nil THEN DeleteFrom(otps, issuer, account) ELSE otps
        /\ last' = Outcome("rm", "", <<>>, issuer, account, err, NoBytes,
                           RowsOf(otps, account, issuer) # {})
        /\ UNCHANGED <<dbTable, dbIndex>>
        /\ UNCHANGED <<now, loadVars, cipherVars>>

----------------------------------------------------------------------------
(* Initial values *)

InitVault ==
    /\ dbTable = FALSE
    /\ dbIndex = FALSE
    /\ otps = EmptyBag
    /\ last = Outcome("none", "", <<>>, <<>>, <<>>, nil, NoBytes, FALSE)

InitLoadIdle ==
    /\ pc = "idle"
    /\ priv = NoKey
    /\ rows = <<>>
    /\ cursor = 1
    /\ out = <<>>
    /\ loc = NoLocals
    /\ loadErr = nil

InitCipherIdle ==
    /\ enc = NoCall
    /\ dec = NoCall

Init ==
    /\ InitVault
    /\ now = 0
    /\ InitLoadIdle
    /\ InitCipherIdle

VaultKeyFiles == {"id_rsa", "missing"}
VaultSecrets == {<<>>, SecretSpaced, SecretLong}

Next ==
    \/ InitDb
    \/ \E keyfile \in VaultKeyFiles, secretkey \in VaultSecrets,
          issuer \in Issuers, account \in Accounts, seed \in Seeds :
          Add(keyfile, secretkey, issuer, account, seed)
    \/ \E issuer \in Issuers, account \in Accounts : Rm(issuer, account)

Spec == Init /\ [][Next]_vars

----------------------------------------------------------------------------
(* Code generation *)

ErrValidateSecretInvalidBase32 == "Decoding of secret as base32 failed."

Base32Alphabet == Range(Upper) \cup {"2", "3", "4", "5", "6", "7"}

\* base32.StdEncoding.DecodeString succeeds on s once padded with "=" to a
\* multiple of 8: every character is of the alphabet and the length is one
\* that an encoding has.
Base32Decodes(s) ==
    /\ \A i \in 1..Len(s) : s[i] \in Base32Alphabet
    /\ Len(s) % 8 \in {0, 2, 4, 5, 7}

\* otp.GenerateCode(key, t) of github.com/pquerna/otp/totp: the HOTP value of
\* the decoded secret at counter floor(t / 30), as an injective function of both.
GenerateCode(secret, t) ==
    LET s == ToUpper(TrimSpace(secret))
    IN  IF ~Base32Decodes(s)
        THEN [err |-> ErrValidateSecretInvalidBase32, token |-> NoToken]
        ELSE [err |-> nil, token |-> [key |-> s, counter |-> t \div StepSeconds]]

\* A variant that removes nothing.
NormalizeKey_keepspaces(decryptedSecret) == ToUpper(decryptedSecret)

\* strings.ToUpper(strings.ReplaceAll(string(decrypted), " ", ""))
NormalizeKey(decryptedSecret) == ToUpper(ReplaceAll(decryptedSecret, " "))

\* A variant that counts from 29.
Expiration_offbyone(t) == (StepSeconds - 1) - (t % StepSeconds)

\* (30 - time.Now().Unix()%30)
Expiration(t) == StepSeconds - (t % StepSeconds)

----------------------------------------------------------------------------
(* load *)

Line(account, issuer, expiration, token) ==
    [account |-> account, issuer |-> issuer, expiration |-> expiration,
     token |-> token]

\* "account\tissuer\texpiration\tcode"
HeaderLine == Line(<<"account">>, <<"issuer">>, 0, NoToken)

\* A variant in which a failing row is skipped and the loop goes on.
LoadFail_continue(err, l) ==
    /\ pc' = "next"
    /\ cursor' = cursor + 1
    /\ loadErr' = loadErr
    /\ loc' = l

\* return err inside the loop.
LoadFail(err, l) ==
    /\ pc' = "done"
    /\ cursor' = cursor
    /\ loadErr' = err
    /\ loc' = l

\* load, up to the loop: the key, the query, the header line.
LoadOpen(keyfile) ==
    LET k == privkeyfile(keyfile)
        err == IF k.err # nil THEN k.err
               ELSE IF ~dbTable THEN ErrNoTable
               ELSE nil
    IN  /\ pc \in {"idle", "done"}
        /\ priv' = k.key
        /\ loc' = NoLocals
        /\ cursor' = 1
        /\ loadErr' = err
        /\ IF err # nil
           THEN pc' = "done" /\ rows' = <<>> /\ out' = <<>>
           ELSE pc' = "next" /\ rows' = SelectOrdered(otps) /\ out' = <<HeaderLine>>
        /\ UNCHANGED <<vaultVars, now, cipherVars>>

\* One pass of the loop body from rows.Next to otp.GenerateCode, which reads
\* the clock.
LoadRow ==
    /\ pc = "next"
    /\ cursor <= Len(rows)
    /\ LET r == rows[cursor]
           d == decrypted(priv, r.password, cryptlabel(r.account, r.issuer))
           key == NormalizeKey(d.out)
           g == GenerateCode(key, now)
           l == [NoLocals EXCEPT !.account = r.account, !.issuer = r.issuer]
       IN  IF d.err # nil THEN LoadFail(d.err, l)
           ELSE IF g.err # nil
           THEN LoadFail(g.err, [l EXCEPT !.decrypted = d.out, !.key = key,
                                          !.keyed = TRUE, !.tcode = now])
           ELSE /\ pc' = "print"
                /\ loc' = [l EXCEPT !.decrypted = d.out, !.key = key,
                                    !.keyed = TRUE, !.token = g.token,
                                    !.tcode = now]
                /\ UNCHANGED <<cursor, loadErr>>
    /\ UNCHANGED <<priv, rows, out>>
    /\ UNCHANGED <<vaultVars, now, cipherVars>>

\* The rest of the loop body: the line is formatted, reading the clock again,
\* and written.
LoadPrint ==
    /\ pc = "print"
    /\ out' = Append(out, Line(loc.account, loc.issuer, Expiration(now), loc.token))
    /\ loc' = [loc EXCEPT !.texp = now]
    /\ cursor' = cursor + 1
    /\ pc' = "next"
    /\ UNCHANGED <<priv, rows, loadErr>>
    /\ UNCHANGED <<vaultVars, now, cipherVars>>

\* rows.Next is false: return nil.
LoadReturn ==
    /\ pc = "next"
    /\ cursor > Len(rows)
    /\ pc' = "done"
    /\ loadErr' = nil
    /\ UNCHANGED <<priv, rows, cursor, out, loc>>
    /\ UNCHANGED <<vaultVars, now, cipherVars>>

\* A second passes.
Tick ==
    /\ now < MaxNow
    /\ now' = now + 1
    /\ UNCHANGED <<vaultVars, loadVars, cipherVars>>

AddArgs(keyfiles, secrets, issuers, accounts, seeds) ==
    [keyfile : keyfiles, secretkey : secrets, issuer : issuers,
     account : accounts, seed : seeds]

\* The tables that up to n add commands with the given arguments leave on an
\* initialized database.
RECURSIVE StoresAfter(_, _)
StoresAfter(n, adds) ==
    IF n = 0 THEN {EmptyBag}
    ELSE LET prev == StoresAfter(n - 1, adds)
         IN prev \cup
            {AddResult(t, TRUE, TRUE, a.keyfile, a.secretkey, a.issuer,
                       a.account, a.seed).otps : t \in prev, a \in adds}

LoadAdds == AddArgs({"id_rsa", "id_other"}, {SecretSpaced, SecretTabbed},
                    Issuers \ {<<>>}, Accounts \ {<<>>}, {1})

LoadStartNow == StepSeconds - 2

InitLoad ==
    /\ dbTable = TRUE
    /\ dbIndex = TRUE
    /\ otps \in StoresAfter(MaxInitAdds, LoadAdds)
    /\ last = Outcome("none", "", <<>>, <<>>, <<>>, nil, NoBytes, FALSE)
    /\ now = LoadStartNow
    /\ InitLoadIdle
    /\ InitCipherIdle

NextLoad ==
    \/ \E keyfile \in KeyFiles : LoadOpen(keyfile)
    \/ LoadRow
    \/ LoadPrint
    \/ LoadReturn
    \/ Tick

SpecLoad == InitLoad /\ [][NextLoad]_vars

ClockAdds == AddArgs({"id_rsa"}, {SecretSpaced}, {<<"c">>}, {<<"a">>}, {1})

InitClock ==
    /\ dbTable = TRUE
    /\ dbIndex = TRUE
    /\ otps \in StoresAfter(1, ClockAdds)
    /\ last = Outcome("none", "", <<>>, <<>>, <<>>, nil, NoBytes, FALSE)
    /\ now = 0
    /\ InitLoadIdle
    /\ InitCipherIdle

SpecClock == InitClock /\ [][NextLoad]_vars

----------------------------------------------------------------------------
(* The cipher on its own: encrypted and decrypted as add and load call them *)

CipherKeys == {privkeyfile(f).key : f \in KeyFiles} \ {NoKey}

\* priv.encrypted([]byte(secretkey), cryptlabel(account, issuer))
CipherEncrypt(key, secretkey, account, issuer, seed) ==
    LET label == cryptlabel(account, issuer)
        e == encrypted(key, secretkey, label, seed)
    IN  /\ enc' = [NoCall EXCEPT !.called = TRUE, !.key = key,
                                 !.secret = secretkey, !.account = account,
                                 !.issuer = issuer, !.label = label,
                                 !.err = e.err, !.out = e.out]
        /\ dec' = NoCall
        /\ UNCHANGED <<vaultVars, now, loadVars>>

\* priv.decrypted(pw, cryptlabel(account, issuer)) on the ciphertext made last
CipherDecrypt(key, account, issuer) ==
    LET label == cryptlabel(account, issuer)
        d == decrypted(key, enc.out, label)
    IN  /\ enc.called
        /\ enc.err = nil
        /\ dec' = [NoCall EXCEPT !.called = TRUE, !.key = key,
                                 !.account = account, !.issuer = issuer,
                                 !.label = label, !.err = d.err,
                                 !.plain = d.out]
        /\ UNCHANGED enc
        /\ UNCHANGED <<vaultVars, now, loadVars>>

NextCipher ==
    \/ \E key \in CipherKeys, secretkey \in Secrets, account \in Accounts,
          issuer \in Issuers, seed \in Seeds :
          CipherEncrypt(key, secretkey, account, issuer, seed)
    \/ \E key \in CipherKeys, account \in Accounts, issuer \in Issuers :
          CipherDecrypt(key, account, issuer)

SpecCipher == Init /\ [][NextCipher]_vars

----------------------------------------------------------------------------
(* Claims about the store: specification Spec *)

ValidationErrors == {ErrSecretMissing, ErrIssuerMissing, ErrAccountMissing}

\* C1: after any sequence of add and rm commands on an initialized database
\* the table holds at most one row per (account, issuer); after a successful
\* add the table holds exactly one row for its pair, and that row holds the
\* ciphertext this add computed, also when the pair had a row before.
C1_UniqueKey ==
    /\ \A r \in BagToSet(otps) : CountOf(otps, r.account, r.issuer) = 1
    /\ (last.op = "add" /\ last.err = nil) =>
          /\ RowsOf(otps, last.account, last.issuer)
                = {Row(last.account, last.issuer, last.enckey)}
          /\ CountOf(otps, last.account, last.issuer) = 1

\* An add that succeeded for a pair that already had a row, beside another row.
C1_Witness ==
    /\ last.op = "add" /\ last.err = nil /\ last.hit
    /\ dbIndex
    /\ Cardinality(BagToSet(otps)) > 1

\* C6: on an initialized database, rm with both arguments given returns nil;
\* when the pair has no row the table is left as it was; when it has one, the
\* table loses that row and keeps every other row.
C6_RmFrame ==
    [][(last'.op = "rm" /\ last' # last /\ last'.issuer # <<>> /\ last'.account # <<>> /\ dbTable)
        => /\ last'.err = nil
           /\ last'.hit = (RowsOf(otps, last'.account, last'.issuer) # {})
           /\ ~last'.hit => otps' = otps
           /\ RowsOf(otps', last'.account, last'.issuer) = {}
           /\ \A r \in BagToSet(otps) :
                 ~(r.account = last'.account /\ r.issuer = last'.issuer)
                    => /\ r \in BagToSet(otps')
                       /\ CopiesIn(r, otps') = CopiesIn(r, otps)
           /\ BagToSet(otps') \subseteq BagToSet(otps)]_vars

\* An rm that returned nil for a pair without a row, the table holding rows.
C6_Witness ==
    /\ last.op = "rm" /\ last.err = nil /\ ~last.hit
    /\ dbTable
    /\ BagToSet(otps) # {}

\* C7: add with an empty secret, issuer or account (the private key loaded)
\* returns the error of the missing argument, encrypts nothing and leaves the
\* table as it was; an add changes the table only when all three are given.
C7_AddValidation ==
    [][(last'.op = "add" /\ last' # last) =>
          /\ (last'.secretkey = <<>> \/ last'.issuer = <<>> \/ last'.account = <<>>) =>
                /\ last'.err # nil
                /\ privkeyfile(last'.keyfile).err = nil =>
                      last'.err = (IF last'.secretkey = <<>> THEN ErrSecretMissing
                                   ELSE IF last'.issuer = <<>> THEN ErrIssuerMissing
                                   ELSE ErrAccountMissing)
                /\ last'.enckey = NoBytes
                /\ otps' = otps
          /\ (otps' # otps \/ last'.err = nil) =>
                /\ last'.secretkey # <<>>
                /\ last'.issuer # <<>>
                /\ last'.account # <<>>]_vars

\* An add that was refused for a missing argument while the table holds rows.
C7_Witness ==
    /\ last.op = "add" /\ last.err \in ValidationErrors
    /\ last.secretkey = <<>> \/ last.issuer = <<>> \/ last.account = <<>>
    /\ last.enckey = NoBytes
    /\ BagToSet(otps) # {}

----------------------------------------------------------------------------
(* Claims about the listing: specifications SpecLoad and SpecClock *)

\* The record fails in load under the loaded key: its decryption or the code
\* generation from its normalized secret returns an error.
RowError(r) ==
    LET d == decrypted(priv, r.password, cryptlabel(r.account, r.issuer))
    IN  IF d.err # nil THEN d.err ELSE GenerateCode(NormalizeKey(d.out), 0).err

Listed(r) ==
    \E i \in 2..Len(out) : out[i].account = r.account /\ out[i].issuer = r.issuer

C8_Original ==
    loc.keyed =>
        \A i \in 1..Len(loc.key) :
            loc.key[i] \notin Whitespace /\ loc.key[i] \notin Range(Lower)

\* C8 as amended: the key handed to the code generator is the decrypted
\* secret with its space characters (U+0020) removed and its letters a-z
\* upper-cased; it holds no space and no letter a-z; every other character,
\* a tab included, is kept.
C8_SpacesStripped ==
    loc.keyed =>
        LET kept == SelectSeq(loc.decrypted, LAMBDA c : c # " ")
        IN  /\ Len(loc.key) = Len(kept)
            /\ \A i \in 1..Len(kept) :
                  /\ loc.key[i] # " "
                  /\ loc.key[i] \notin Range(Lower)
                  /\ IF kept[i] \in Range(Lower)
                     THEN loc.key[i] = Upper[IndexOf(Lower, kept[i])]
                     ELSE loc.key[i] = kept[i]

\* A decrypted secret with a space and a lower-case letter was normalized and
\* its code generated.
C8_Witness ==
    /\ loc.keyed
    /\ " " \in Range(loc.decrypted)
    /\ Range(loc.decrypted) \cap Range(Lower) # {}
    /\ pc = "print"

\* C10: in every line load prints, the clock reading the code was generated
\* from and the clock reading the expiration was computed from are of the
\* same 30-second step.
C10_SameStep ==
    loc.texp # -1 =>
        /\ loc.tcode \div 30 = loc.texp \div 30
        /\ out[Len(out)].token.counter = loc.texp \div 30

\* C9: the expiration of every line is 30 - (t mod 30) for the clock reading t
\* it was computed from, lies in 1..30 and is 30 when t is a multiple of 30;
\* from one second to the next the expiration goes down by one, and from 1
\* back to 30.
C9_Expiration ==
    /\ [](\A i \in 2..Len(out) : out[i].expiration \in 1..30)
    /\ [](loc.texp # -1 =>
            /\ out[Len(out)].expiration = 30 - (loc.texp % 30)
            /\ (loc.texp % 30 = 0) => out[Len(out)].expiration = 30)
    /\ [][now' = now + 1 =>
            IF Expiration(now) = 1
            THEN Expiration(now') = 30
            ELSE Expiration(now') = Expiration(now) - 1]_vars

\* A line printed at the start of the second step, expiration back at 30,
\* after the clock went through every second of the first step.
C9_Witness ==
    /\ loc.texp = 30
    /\ Len(out) = 2
    /\ out[2].expiration = 30
    /\ loc.tcode = 30

----------------------------------------------------------------------------
(* Claims about the cipher: specification SpecCipher *)

\* C3: decrypting with the label of (a2, i2) a ciphertext encrypted with the
\* label of (a1, i1) returns an error whenever the two labels differ, also
\* under the right key.
C3_LabelBinding ==
    (dec.called /\ dec.label # enc.label) => (dec.err # nil /\ dec.plain = <<>>)

\* A decryption under the encrypting key and another label, refused.
C3_Witness ==
    /\ dec.called /\ dec.key = enc.key
    /\ enc.secret # <<>>
    /\ dec.label # enc.label
    /\ dec.err = ErrDecryption

\* C4: the label is the bytes of account followed by the bytes of issuer and
\* nothing else; two pairs with the same concatenation have the same label,
\* and a ciphertext made for one decrypts under the other.
C4_LabelConcat ==
    /\ enc.called =>
          /\ Len(enc.label) = Len(enc.account) + Len(enc.issuer)
          /\ \A i \in 1..Len(enc.account) : enc.label[i] = enc.account[i]
          /\ \A i \in 1..Len(enc.issuer) :
                enc.label[Len(enc.account) + i] = enc.issuer[i]
    /\ (/\ dec.called /\ dec.key = enc.key
        /\ dec.account \o dec.issuer = enc.account \o enc.issuer) =>
          /\ dec.label = enc.label
          /\ dec.err = nil
          /\ dec.plain = enc.secret

\* The ciphertext of ("ab", "c") decrypted as that of ("a", "bc").
C4_Witness ==
    /\ dec.called /\ dec.err = nil
    /\ enc.account = <<"a", "b">> /\ enc.issuer = <<"c">>
    /\ dec.account = <<"a">> /\ dec.issuer = <<"b", "c">>
    /\ enc.secret # <<>>
    /\ dec.plain = enc.secret

====
